---- MODULE Spec2Model ----
(***************************************************************************)
(* Model of tools/aggregate_and_translate.py: the batch pipeline           *)
(*   fetch -> normalize -> dedup -> sort -> translate -> enrich -> write.  *)
(*                                                                         *)
(* Representation.                                                         *)
(*  - A Python str is a sequence of symbols.  A symbol is a character or   *)
(*    an unbroken run of characters ("Example", "jp"); separators (" ",    *)
(*    ".", "/", "//", ":") are always symbols of their own, so strip,      *)
(*    split, lower, `in`, + and urlparse work on symbols as they do on     *)
(*    characters.  len() counts symbols.                                   *)
(*  - None is the reserved one-symbol sequence None; NonStr stands for a   *)
(*    truthy value that is not a str.  Neither symbol occurs in any text.  *)
(*  - An ISO-8601 UTC timestamp is the integer instant it denotes; the     *)
(*    order of the integers is the order of the strings.                   *)
(*  - sha256 is collision free: a digest is modelled by its preimage.      *)
(***************************************************************************)
EXTENDS Integers, Sequences, FiniteSets, TLC

None == <<"None">>
NonStr == <<"NonStr">>

\* Python truthiness of a str-or-None value
Truthy(v) == v # None /\ v # <<>>

\* Python `a or b`
Or(a, b) == IF Truthy(a) THEN a ELSE b

Max2(a, b) == IF a >= b THEN a ELSE b

\* ---------------------------------------------------------------- bounds
\* entries per feed document
MaxEntries == 2
\* rows of the catalog file
MaxRows == 2
\* last instant the clock can show
MaxClock == 3
\* the cap of the output sequence; the source's literal is 1000, scaled so
\* that a run can exceed it with MaxEntries entries per feed
ItemCap == 3
\* instants per calendar day (dateutil completes a partial date from today)
DayLen == 2

\* ------------------------------------------------------ program constants
TitleMax == 220
SummaryMax == 1200
CategoryMax == 64
WordsPerMinute == 200
TARGET_LANG == <<"ja">>
\* the "unknown" sentinel of country and continent (U+4E0D U+660E in the source)
Unknown == <<"fumei">>

\* ------------------------------------------------------------ str methods
IsSpace(c) == c = " "

RECURSIVE LStrip(_)
LStrip(s) == IF s # <<>> /\ IsSpace(Head(s)) THEN LStrip(Tail(s)) ELSE s

RECURSIVE RStrip(_)
RStrip(s) ==
    IF s # <<>> /\ IsSpace(s[Len(s)]) THEN RStrip(SubSeq(s, 1, Len(s) - 1)) ELSE s

\* str.strip()
Strip(s) == RStrip(LStrip(s))

LowerSym(c) ==
    CASE c = "Example" -> "example"
      [] c = "News"    -> "news"
      [] c = "World"   -> "world"
      [] c = "Other"   -> "other"
      [] c = "WWW"     -> "www"
      [] OTHER         -> c

\* str.lower()
Lower(s) == [i \in 1..Len(s) |-> LowerSym(s[i])]

\* a in b, for two str
IsSubstr(a, b) ==
    \E i \in 0..(Len(b) - Len(a)) : SubSeq(b, i + 1, i + Len(a)) = a

\* len(s.split()): the number of maximal runs of non-space symbols
WordCount(s) ==
    Cardinality({i \in 1..Len(s) :
                    /\ ~IsSpace(s[i])
                    /\ (i = 1 \/ IsSpace(s[i - 1]))})

\* ------------------------------------------------------------------ clamp
ClampRaises(s) == s = NonStr

clamp(s, n) ==
    LET t == Strip(Or(s, <<>>))
    IN  IF Len(t) <= n THEN t ELSE SubSeq(t, 1, n - 1) \o <<"...">>

\* --------------------------------------------------------------- identity
sha256(base) == <<"sha256">> \o base

ItemGet(item, k, default) == IF k \in DOMAIN item THEN item[k] ELSE default

\* a digest of title + source alone, the link ignored
identity_title_only(item) ==
    sha256(ItemGet(item, "title", <<>>) \o ItemGet(item, "source", <<>>))

identity(item) ==
    LET base == Or(ItemGet(item, "link", None),
                   Or(ItemGet(item, "id", None),
                      ItemGet(item, "title", <<>>) \o ItemGet(item, "source", <<>>)))
    IN  sha256(base)

\* ---------------------------------------------------------------- norm_dt
\* A date attribute of an entry: absent, unparseable, a complete date-time
\* (instant t), or a partial one that dateutil completes from today's date.
NoDate == [k |-> "none", t |-> 0]
BadDate == [k |-> "bad", t |-> 0]
FullDate(t) == [k |-> "full", t |-> t]
PartialDate(t) == [k |-> "partial", t |-> t]

DateTruthy(v) == v.k # "none"

DayStart(clock) == (clock \div DayLen) * DayLen

\* dtp.parse(val).astimezone(timezone.utc).isoformat() raises
ParseDateRaises(val) == val.k \notin {"full", "partial"}

\* dtp.parse(val).astimezone(timezone.utc).isoformat()
ParseDate(val, clock) ==
    IF val.k = "partial" THEN DayStart(clock) + val.t ELSE val.t

\* datetime(*entry.published_parsed[:6], tzinfo=utc) raises
FromTupleRaises(val) == val.k # "full"

RECURSIVE NormDtKeys(_, _, _)
NormDtKeys(entry, keys, clock) ==
    IF keys = <<>> THEN [found |-> FALSE, t |-> 0]
    ELSE LET val == entry[Head(keys)]
         IN  IF DateTruthy(val) /\ ~ParseDateRaises(val)
             THEN [found |-> TRUE, t |-> ParseDate(val, clock)]
             ELSE NormDtKeys(entry, Tail(keys), clock)

\* norm_dt without the published_parsed fallback
norm_dt_no_tuple(entry, clock) ==
    LET r == NormDtKeys(entry, <<"published", "updated", "created">>, clock)
    IN  IF r.found THEN r.t ELSE clock

norm_dt(entry, clock) ==
    LET r == NormDtKeys(entry, <<"published", "updated", "created">>, clock)
    IN  IF r.found THEN r.t
        ELSE IF DateTruthy(entry.published_parsed)
                /\ ~FromTupleRaises(entry.published_parsed)
             THEN entry.published_parsed.t
             ELSE clock

\* ------------------------------------------------------- extract_category
RECURSIVE FirstTagKey(_, _)
FirstTagKey(tag, keys) ==
    IF keys = <<>> THEN None
    ELSE IF Head(keys) \in DOMAIN tag /\ Truthy(tag[Head(keys)])
         THEN SubSeq(tag[Head(keys)], 1,
                     IF Len(tag[Head(keys)]) < CategoryMax
                     THEN Len(tag[Head(keys)]) ELSE CategoryMax)
         ELSE FirstTagKey(tag, Tail(keys))

extract_category(entry) ==
    IF entry.tags # <<>> /\ FirstTagKey(entry.tags[1], <<"term", "label">>) # None
    THEN FirstTagKey(entry.tags[1], <<"term", "label">>)
    ELSE <<"general">>

\* -------------------------------------------------------- maybe_translate
\* detect(text) failing (LangDetectException)
DetectRaises == <<"raise">>

\* What requests.post does: it raises (timeout, connection error), answers
\* with a non-OK status, or answers OK with a body that carries
\* translatedText, is JSON without that key, or is not a JSON object.
RespKinds == {"raise", "not_ok", "ok_text", "ok_nokey", "ok_malformed"}

\* maybe_translate without the test of line 65: it always posts
maybe_translate_no_shortcut(text, src_hint, lt_url, det, resp) ==
    IF ~Truthy(text) \/ ~Truthy(lt_url)
    THEN [text |-> text, lang |-> None, posts |-> <<>>]
    ELSE LET raised == ~Truthy(src_hint) /\ det = DetectRaises
             lang   == IF raised THEN None ELSE Or(src_hint, det)
         IN  IF resp.k = "ok_text"
             THEN [text |-> resp.text, lang |-> lang, posts |-> <<text>>]
             ELSE [text |-> text, lang |-> lang, posts |-> <<text>>]

\* maybe_translate that forgets the detected language when the call fails
maybe_translate_lang_lost(text, src_hint, lt_url, det, resp) ==
    IF ~Truthy(text) \/ ~Truthy(lt_url)
    THEN [text |-> text, lang |-> None, posts |-> <<>>]
    ELSE LET raised == ~Truthy(src_hint) /\ det = DetectRaises
             lang   == IF raised THEN None ELSE Or(src_hint, det)
         IN  IF ~raised /\ lang = TARGET_LANG
             THEN [text |-> text, lang |-> lang, posts |-> <<>>]
             ELSE IF resp.k = "ok_text"
                  THEN [text |-> resp.text, lang |-> lang, posts |-> <<text>>]
                  ELSE [text |-> text, lang |-> None, posts |-> <<text>>]

\* returns [text, lang, posts]: the pair the code returns, and the payload
\* texts q it posted to LT_URL/translate on the way
maybe_translate(text, src_hint, lt_url, det, resp) ==
    IF ~Truthy(text) \/ ~Truthy(lt_url)
    THEN [text |-> text, lang |-> None, posts |-> <<>>]
    ELSE LET raised == ~Truthy(src_hint) /\ det = DetectRaises
             lang   == IF raised THEN None ELSE Or(src_hint, det)
         IN  IF ~raised /\ lang = TARGET_LANG
             THEN [text |-> text, lang |-> lang, posts |-> <<>>]
             ELSE IF resp.k = "ok_text"
                  THEN [text |-> resp.text, lang |-> lang, posts |-> <<text>>]
                  ELSE [text |-> text, lang |-> lang, posts |-> <<text>>]

\* ---------------------------------------------------------------- _netloc
SchemeSym(c) == c \notin {":", "/", "//", "?", "#", " "}

FirstIndex(s, syms) ==
    IF \E i \in 1..Len(s) : s[i] \in syms
    THEN CHOOSE i \in 1..Len(s) : s[i] \in syms /\ \A j \in 1..(i - 1) : s[j] \notin syms
    ELSE 0

\* urlsplit: drop "scheme:" when the part before the first ":" is a scheme
AfterScheme(url) ==
    LET i == FirstIndex(url, {":"})
    IN  IF i > 1 /\ \A j \in 1..(i - 1) : SchemeSym(url[j])
        THEN SubSeq(url, i + 1, Len(url))
        ELSE url

\* urlparse(url).netloc.lower()
_netloc(url) ==
    LET rest == AfterScheme(url)
    IN  IF rest # <<>> /\ Head(rest) = "//"
        THEN LET auth == Tail(rest)
                 e    == FirstIndex(auth, {"/", "?", "#"})
             IN  Lower(IF e = 0 THEN auth ELSE SubSeq(auth, 1, e - 1))
        ELSE <<>>

\* ------------------------------------------------------------------ dicts
\* A Python dict is the sequence of its [k, v] pairs in insertion order.
DictHas(d, k) == \E i \in 1..Len(d) : d[i].k = k

DictGet(d, k) == d[CHOOSE i \in 1..Len(d) : d[i].k = k].v

\* d[k] = v: a present key keeps its position
DictSet(d, k, v) ==
    IF DictHas(d, k)
    THEN [i \in 1..Len(d) |-> IF d[i].k = k THEN [k |-> k, v |-> v] ELSE d[i]]
    ELSE Append(d, [k |-> k, v |-> v])

\* ---------------------------------------------------- load_source_catalog
RECURSIVE LoadRows(_, _)
LoadRows(rows, maps) ==
    IF rows = <<>> THEN maps
    ELSE LET row  == Head(rows)
             name == Strip(Or(ItemGet(row, "name", None), <<>>))
             site == Strip(Or(ItemGet(row, "website_url", None), <<>>))
             d    == _netloc(site)
         IN  IF ~Truthy(name) THEN LoadRows(Tail(rows), maps)
             ELSE LoadRows(Tail(rows),
                    [name_map   |-> DictSet(maps.name_map, Lower(name), row),
                     domain_map |-> IF Truthy(site) /\ Truthy(d)
                                    THEN DictSet(maps.domain_map, d, row)
                                    ELSE maps.domain_map])

load_source_catalog(file) ==
    IF ~file.exists THEN [domain_map |-> <<>>, name_map |-> <<>>]
    ELSE LoadRows(file.rows, [domain_map |-> <<>>, name_map |-> <<>>])

\* ---------------------------------------------------- enrich_from_catalog
\* (row.get(k) or "").strip() or None
RowField(row, k) ==
    LET v == Strip(Or(ItemGet(row, k, None), <<>>))
    IN  IF Truthy(v) THEN v ELSE None

RowResult(row) ==
    [country   |-> RowField(row, "country"),
     continent |-> RowField(row, "continent"),
     language  |-> RowField(row, "language"),
     name      |-> RowField(row, "name")]

NoResult == [country |-> None, continent |-> None, language |-> None, name |-> None]

\* the first entry of name_map, in iteration order, whose key is in `key`
FirstSubstr(name_map, key) ==
    IF \E i \in 1..Len(name_map) :
           Truthy(name_map[i].k) /\ IsSubstr(name_map[i].k, key)
    THEN CHOOSE i \in 1..Len(name_map) :
           /\ Truthy(name_map[i].k) /\ IsSubstr(name_map[i].k, key)
           /\ \A j \in 1..(i - 1) :
                 ~(Truthy(name_map[j].k) /\ IsSubstr(name_map[j].k, key))
    ELSE 0

\* the lookups in another order: the exact source name before the domain
enrich_name_first(source_name, link_url, dmap, nmap) ==
    LET d   == _netloc(link_url)
        key == Lower(Strip(Or(source_name, <<>>)))
    IN  IF DictHas(nmap, key)
        THEN RowResult(DictGet(nmap, key))
        ELSE IF Truthy(d) /\ DictHas(dmap, d)
             THEN RowResult(DictGet(dmap, d))
             ELSE IF FirstSubstr(nmap, key) # 0
                  THEN RowResult(nmap[FirstSubstr(nmap, key)].v)
                  ELSE NoResult

enrich_from_catalog(source_name, link_url, dmap, nmap) ==
    LET d   == _netloc(link_url)
        key == Lower(Strip(Or(source_name, <<>>)))
    IN  IF Truthy(d) /\ DictHas(dmap, d)
        THEN RowResult(DictGet(dmap, d))
        ELSE IF DictHas(nmap, key)
             THEN RowResult(DictGet(nmap, key))
             ELSE IF FirstSubstr(nmap, key) # 0
                  THEN RowResult(nmap[FirstSubstr(nmap, key)].v)
                  ELSE NoResult

\* -------------------------------------------------- estimate_reading_time
\* Python round(): half to even
RoundDiv(n, d) ==
    LET q == n \div d
        r == n % d
    IN  IF 2 * r < d THEN q
        ELSE IF 2 * r > d THEN q + 1
        ELSE IF q % 2 = 0 THEN q ELSE q + 1

estimate_reading_time(text) ==
    Max2(1, RoundDiv(WordCount(Or(text, <<>>)), WordsPerMinute))

\* ------------------------------------------- the list operations of main
\* seen = set(); uniq = []; keep the first item of every identity
RECURSIVE DedupFrom(_, _, _)
DedupFrom(items, seen, acc) ==
    IF items = <<>> THEN acc
    ELSE LET key == identity(Head(items))
         IN  IF key \in seen
             THEN DedupFrom(Tail(items), seen, acc)
             ELSE DedupFrom(Tail(items), seen \cup {key}, Append(acc, Head(items)))

Dedup(items) == DedupFrom(items, {}, <<>>)

\* the sort key of main: x.get("published", "")
SortKey(x) == x.published

\* where a stable descending sort puts x among the already sorted items
\* that preceded it: after every item whose key is >= its own
\* an unstable sort: x goes before the items whose key equals its own
InsertPos_unstable(sorted, x) ==
    Cardinality({i \in 1..Len(sorted) : SortKey(sorted[i]) > SortKey(x)})

InsertPos(sorted, x) ==
    Cardinality({i \in 1..Len(sorted) : SortKey(sorted[i]) >= SortKey(x)})

InsertDesc(sorted, x) ==
    LET p == InsertPos(sorted, x)
    IN  SubSeq(sorted, 1, p) \o <<x>> \o SubSeq(sorted, p + 1, Len(sorted))

RECURSIVE SortFrom(_, _)
SortFrom(items, acc) ==
    IF items = <<>> THEN acc ELSE SortFrom(Tail(items), InsertDesc(acc, Head(items)))

\* list.sort(key=..., reverse=True): stable, descending
SortDesc(items) == SortFrom(items, <<>>)

\* a cap that is off by one
Truncate_off_by_one(items) ==
    SubSeq(items, 1, IF Len(items) < ItemCap + 1 THEN Len(items) ELSE ItemCap + 1)

\* formatted[:1000]
Truncate(items) ==
    SubSeq(items, 1, IF Len(items) < ItemCap THEN Len(items) ELSE ItemCap)

\* ------------------------------------------------------------------ state
VARIABLES
    web,           \* what feedparser.parse(url) yields for the i-th feed url
    catalog_file,  \* data/news_sources.csv: [exists, rows]
    LT_URL,        \* the translation endpoint; <<>> turns translation off
    now,           \* the wall clock
    pc,            \* where main() is
    run,           \* "first" or "second" invocation of the program
    fi,            \* index of the feed url being fetched
    ei,            \* index of the entry of that feed being normalized
    src_title,
    domain_map,
    name_map,
    raw_items,
    uniq,
    ti,            \* index of the item being translated
    translated,
    formatted,
    feed_json,     \* docs/feed.json
    prev_json,     \* docs/feed.json as the previous invocation left it
    tlog           \* history: one record per call of maybe_translate

vars == <<web, catalog_file, LT_URL, now, pc, run, fi, ei, src_title, domain_map,
          name_map, raw_items, uniq, ti, translated, formatted, feed_json,
          prev_json, tlog>>

NoFile == [written |-> FALSE]

\* feeds.txt, line by line
FeedsTxt == << <<"#", " ", "feeds">>, <<"u1">>, <<>>, <<" ", "u2">> >>

\* [ln.strip() for ln in f if ln.strip() and not ln.startswith("#")]
RECURSIVE ReadFeeds(_)
ReadFeeds(lines) ==
    IF lines = <<>> THEN <<>>
    ELSE LET ln == Head(lines)
         IN  IF Truthy(Strip(ln)) /\ ~(ln # <<>> /\ Head(ln) = "#")
             THEN <<Strip(ln)>> \o ReadFeeds(Tail(lines))
             ELSE ReadFeeds(Tail(lines))

feed_urls == ReadFeeds(FeedsTxt)

\* ------------------------------------------------------------------- main
\* lines 187-194: read feeds.txt, load the catalog
Start ==
    /\ pc = "start"
    /\ domain_map' = load_source_catalog(catalog_file).domain_map
    /\ name_map' = load_source_catalog(catalog_file).name_map
    /\ fi' = 1
    /\ pc' = "parse"
    /\ UNCHANGED <<web, catalog_file, LT_URL, now, run, ei, src_title, raw_items,
                   uniq, ti, translated, formatted, feed_json, prev_json, tlog>>

\* lines 198-201 (and 216-219 when feedparser.parse raises)
ParseFeed ==
    /\ pc = "parse"
    /\ fi <= Len(feed_urls)
    /\ IF web[fi].error
       THEN /\ fi' = fi + 1
            /\ UNCHANGED <<pc, ei, src_title>>
       ELSE /\ src_title' = IF web[fi].title # None THEN web[fi].title
                            ELSE feed_urls[fi]
            /\ ei' = 1
            /\ pc' = "entry"
            /\ UNCHANGED fi
    /\ UNCHANGED <<web, catalog_file, LT_URL, now, run, domain_map, name_map,
                   raw_items, uniq, ti, translated, formatted, feed_json,
                   prev_json, tlog>>

\* lines 203-215: the dict main() appends for entry e
NormalizedItem(e, source, clock) ==
    [source    |-> source,
     title     |-> clamp(e.title, TitleMax),
     summary   |-> clamp(Or(e.summary, e.description), SummaryMax),
     link      |-> e.link,
     published |-> norm_dt(e, clock),
     category  |-> extract_category(e)]

\* an exception escapes lines 203-215
NormalizeRaises(e) ==
    ClampRaises(e.title) \/ ClampRaises(Or(e.summary, e.description))

\* what the try block of lines 199-219 does to raw_items for one entry
AppendEntry(items, e, source, clock) ==
    IF NormalizeRaises(e) THEN items
    ELSE Append(items, NormalizedItem(e, source, clock))

\* lines 202-219: one iteration of the entry loop, or its end.  The clock
\* is read once per entry and may have advanced since the last reading.
NormEntry ==
    /\ pc = "entry"
    /\ IF ei > Len(web[fi].entries)
       THEN /\ fi' = fi + 1
            /\ pc' = "parse"
            /\ UNCHANGED <<now, ei, raw_items>>
       ELSE \E d \in 0..1 :
            /\ now + d <= MaxClock
            /\ now' = now + d
            /\ raw_items' = AppendEntry(raw_items, web[fi].entries[ei], src_title, now')
            /\ IF NormalizeRaises(web[fi].entries[ei])
               THEN /\ fi' = fi + 1
                    /\ pc' = "parse"
                    /\ UNCHANGED ei
               ELSE /\ ei' = ei + 1
                    /\ UNCHANGED <<fi, pc>>
    /\ UNCHANGED <<web, catalog_file, LT_URL, run, src_title, domain_map, name_map,
                   uniq, ti, translated, formatted, feed_json, prev_json, tlog>>

\* lines 221-229
DedupStep ==
    /\ pc = "parse"
    /\ fi > Len(feed_urls)
    /\ uniq' = Dedup(raw_items)
    /\ pc' = "sort"
    /\ UNCHANGED <<web, catalog_file, LT_URL, now, run, fi, ei, src_title,
                   domain_map, name_map, raw_items, ti, translated, formatted,
                   feed_json, prev_json, tlog>>

\* lines 231-232
SortStep ==
    /\ pc = "sort"
    /\ uniq' = SortDesc(uniq)
    /\ ti' = 1
    /\ pc' = "translate"
    /\ UNCHANGED <<web, catalog_file, LT_URL, now, run, fi, ei, src_title,
                   domain_map, name_map, raw_items, translated, formatted,
                   feed_json, prev_json, tlog>>

\* what langdetect.detect can answer
DetectResults == {<<"ja">>, <<"en">>, DetectRaises}

\* the answers of the endpoint to a request for `text`
Responses(text) == {[k |-> kind, text |-> <<"ja:">> \o text] : kind \in RespKinds}

\* With no endpoint configured neither collaborator is ever consulted.
DetectAnswers(lt_url) == IF Truthy(lt_url) THEN DetectResults ELSE {None}

PostAnswers(lt_url, text) ==
    IF Truthy(lt_url) THEN Responses(text) ELSE {[k |-> "none", text |-> text]}

\* The history records of a call what the call consumed: the answer of
\* detect only when detect ran, the answer of the endpoint only when a
\* request was posted.
CallRecord(text, hint, lt_url, det, resp, ret) ==
    [text     |-> text,
     src_hint |-> hint,
     det      |-> IF Truthy(text) /\ Truthy(lt_url) /\ ~Truthy(hint) THEN det ELSE None,
     resp     |-> IF ret.posts # <<>> THEN resp.k ELSE "none",
     ret_text |-> ret.text,
     ret_lang |-> ret.lang,
     posts    |-> ret.posts]

\* lines 237-243: the item with its three translation keys
TranslatedItem(it, r1, r2) ==
    [source             |-> it.source,
     title              |-> it.title,
     summary            |-> it.summary,
     link               |-> it.link,
     published          |-> it.published,
     category           |-> it.category,
     title_translated   |-> r1.text,
     summary_translated |-> r2.text,
     lang_detected      |-> Or(r1.lang, r2.lang)]

\* lines 236-247: one iteration of the translation loop
TranslateItem ==
    /\ pc = "translate"
    /\ ti <= Len(uniq)
    /\ \E det1 \in DetectAnswers(LT_URL), det2 \in DetectAnswers(LT_URL) :
       \E resp1 \in PostAnswers(LT_URL, uniq[ti].title),
          resp2 \in PostAnswers(LT_URL, uniq[ti].summary) :
          LET it == uniq[ti]
              r1 == maybe_translate(it.title, None, LT_URL, det1, resp1)
              r2 == maybe_translate(it.summary, r1.lang, LT_URL, det2, resp2)
          IN  /\ translated' = Append(translated, TranslatedItem(it, r1, r2))
              /\ tlog' = tlog \o <<CallRecord(it.title, None, LT_URL, det1, resp1, r1),
                                   CallRecord(it.summary, r1.lang, LT_URL, det2, resp2, r2)>>
    /\ ti' = ti + 1
    /\ UNCHANGED <<web, catalog_file, LT_URL, now, pc, run, fi, ei, src_title,
                   domain_map, name_map, raw_items, uniq, formatted, feed_json,
                   prev_json>>

\* lines 251-283: the output record of one item
FormatItem(it, dmap, nmap) ==
    LET cat   == enrich_from_catalog(it.source, it.link, dmap, nmap)
        basis == Or(it.summary_translated, Or(it.summary, it.title))
    IN  [title                |-> it.title,
         title_translated     |-> Or(it.title_translated, it.title),
         summary              |-> it.summary,
         summary_translated   |-> Or(it.summary_translated, it.summary),
         link                 |-> it.link,
         source_name          |-> Or(cat.name, it.source),
         published            |-> it.published,
         language             |-> Or(cat.language, Or(it.lang_detected, <<"unknown">>)),
         country              |-> Or(cat.country, Unknown),
         continent            |-> Or(cat.continent, Unknown),
         category             |-> it.category,
         reading_time_minutes |-> estimate_reading_time(basis)]

\* lines 249-283
FormatStep ==
    /\ pc = "translate"
    /\ ti > Len(uniq)
    /\ formatted' = [i \in 1..Len(translated) |->
                        FormatItem(translated[i], domain_map, name_map)]
    /\ pc' = "write"
    /\ UNCHANGED <<web, catalog_file, LT_URL, now, run, fi, ei, src_title,
                   domain_map, name_map, raw_items, uniq, ti, translated,
                   feed_json, prev_json, tlog>>

\* lines 285-290
OutDocument(items, clock) ==
    [written      |-> TRUE,
     generated_at |-> clock,
     target_lang  |-> TARGET_LANG,
     count        |-> Len(items),
     items        |-> Truncate(items)]

\* lines 285-293
WriteOut ==
    /\ pc = "write"
    /\ \E d \in 0..1 :
          /\ now + d <= MaxClock
          /\ now' = now + d
          /\ feed_json' = OutDocument(formatted, now')
    /\ pc' = "done"
    /\ UNCHANGED <<web, catalog_file, LT_URL, run, fi, ei, src_title, domain_map,
                   name_map, raw_items, uniq, ti, translated, formatted,
                   prev_json, tlog>>

\* The program is invoked again, later, on the same feeds and catalog.
Rerun ==
    /\ pc = "done"
    /\ run = "first"
    /\ now < MaxClock
    /\ run' = "second"
    /\ now' = now + 1
    /\ prev_json' = feed_json
    /\ pc' = "start"
    /\ fi' = 0
    /\ ei' = 0
    /\ ti' = 0
    /\ src_title' = <<>>
    /\ domain_map' = <<>>
    /\ name_map' = <<>>
    /\ raw_items' = <<>>
    /\ uniq' = <<>>
    /\ translated' = <<>>
    /\ formatted' = <<>>
    /\ tlog' = <<>>
    /\ UNCHANGED <<web, catalog_file, LT_URL, feed_json>>

Next ==
    \/ Start
    \/ ParseFeed
    \/ NormEntry
    \/ DedupStep
    \/ SortStep
    \/ TranslateItem
    \/ FormatStep
    \/ WriteOut
    \/ Rerun

\* ----------------------------------------------------------------- inputs
InitWith(Webs, Catalogs, LtUrls) ==
    /\ web \in Webs
    /\ catalog_file \in Catalogs
    /\ LT_URL \in LtUrls
    /\ now = 0
    /\ pc = "start"
    /\ run = "first"
    /\ fi = 0
    /\ ei = 0
    /\ ti = 0
    /\ src_title = <<>>
    /\ domain_map = <<>>
    /\ name_map = <<>>
    /\ raw_items = <<>>
    /\ uniq = <<>>
    /\ translated = <<>>
    /\ formatted = <<>>
    /\ feed_json = NoFile
    /\ prev_json = NoFile
    /\ tlog = <<>>

\* sequences of at most n elements of S
SeqsUpTo(S, n) == UNION {[1..k -> S] : k \in 0..n}

Entry(title, summary, link, published) ==
    [title |-> title, summary |-> summary, description |-> <<>>, link |-> link,
     published |-> published, updated |-> NoDate, created |-> NoDate,
     published_parsed |-> NoDate, tags |-> <<>>]

Feed(title, entries) == [error |-> FALSE, title |-> title, entries |-> entries]

FeedError == [error |-> TRUE, title |-> None, entries |-> <<>>]

NoCatalog == [exists |-> FALSE, rows |-> <<>>]

La == <<"http", ":", "//", "x", ".", "jp", "/", "a">>
Lb == <<"http", ":", "//", "y", ".", "com", "/", "b">>
Lc == <<"http", ":", "//", "y", ".", "com", "/", "c">>
Ld == <<"http", ":", "//", "x", ".", "jp", "/", "d">>

\* Feed contents for deduplication, ordering and the cap: entries that share
\* a link within and across feeds, entries with equal dates, and an entry
\* without link whose title + source spells the link La in the feed "a".
PoolA1 ==
    { Entry(<<"t1">>, <<>>, La, FullDate(2)),
      Entry(<<"t2">>, <<>>, La, FullDate(1)),
      Entry(<<"http", ":", "//", "x", ".", "jp", "/">>, <<>>, <<>>, FullDate(1)),
      Entry(<<"t4">>, <<>>, Ld, FullDate(3)),
      Entry(<<"t7">>, <<>>, <<>>, FullDate(2)) }

PoolA2 ==
    { Entry(<<"t5">>, <<>>, La, FullDate(3)),
      Entry(<<"t1">>, <<>>, Lb, FullDate(2)),
      [Entry(<<"t6">>, <<"s", " ", "s">>, Lc, FullDate(1))
          EXCEPT !.tags = <<[term |-> <<>>, label |-> <<"tech">>]>>] }

WebsA ==
    { <<Feed(<<"a">>, es1), Feed(None, es2)>> :
        es1 \in SeqsUpTo(PoolA1, MaxEntries), es2 \in SeqsUpTo(PoolA2, MaxEntries) }

Init == InitWith(WebsA, {NoCatalog}, {<<>>})

Spec == Init /\ [][Next]_vars

\* ------------------------------------------------- the written document
Done == pc = "done"

OutItems == feed_json.items

\* output record o was made from the fetched item r
Came(o, r) ==
    /\ o.title = r.title
    /\ o.summary = r.summary
    /\ o.link = r.link
    /\ o.published = r.published
    /\ o.category = r.category

\* how often the fetched item r appears in the output
Occ(r) == Cardinality({k \in 1..Len(OutItems) : Came(OutItems[k], r)})

\* position of the first fetched item that output record o was made from
FirstRaw(o) ==
    CHOOSE i \in 1..Len(raw_items) :
        /\ Came(o, raw_items[i])
        /\ \A j \in 1..(i - 1) : ~Came(o, raw_items[j])

\* i is the first fetched item with its (non-empty) link, and not the only one
FirstOfSharedLink(i) ==
    /\ raw_items[i].link # <<>>
    /\ \A k \in 1..(i - 1) : raw_items[k].link # raw_items[i].link
    /\ \E j \in (i + 1)..Len(raw_items) : raw_items[j].link = raw_items[i].link

\* j is a later fetched item with the link of i that differs from i
LaterOfLink(i, j) ==
    /\ j > i
    /\ raw_items[j].link = raw_items[i].link
    /\ raw_items[j] # raw_items[i]

\* an earlier item without link whose title + source spells the link of i
ShadowedByTitle(i) ==
    \E k \in 1..(i - 1) :
        /\ raw_items[k].link = <<>>
        /\ raw_items[k].title \o raw_items[k].source = raw_items[i].link

C2_Ordering ==
    Done =>
        \A a \in 1..Len(OutItems), b \in 1..Len(OutItems) :
            a < b =>
                /\ OutItems[a].published >= OutItems[b].published
                /\ OutItems[a].published = OutItems[b].published
                      => FirstRaw(OutItems[a]) < FirstRaw(OutItems[b])

C2_Witness ==
    /\ Done
    /\ \E a \in 1..Len(OutItems), b \in 1..Len(OutItems) :
          /\ a < b
          /\ OutItems[a].published = OutItems[b].published
    /\ \E a \in 1..Len(OutItems), b \in 1..Len(OutItems) :
          /\ a < b
          /\ OutItems[a].published > OutItems[b].published
          /\ FirstRaw(OutItems[a]) > FirstRaw(OutItems[b])

\* C3: more unique items than the cap give exactly ItemCap output items,
\* none of them older than a unique item left out; otherwise every unique
\* item is an output item.
C3_ItemCap ==
    Done =>
        /\ Len(uniq) > ItemCap =>
              /\ Len(OutItems) = ItemCap
              /\ \A u \in 1..Len(uniq) :
                    \/ \E k \in 1..Len(OutItems) : Came(OutItems[k], uniq[u])
                    \/ \A k \in 1..Len(OutItems) :
                          OutItems[k].published >= uniq[u].published
        /\ Len(uniq) <= ItemCap =>
              /\ Len(OutItems) = Len(uniq)
              /\ \A u \in 1..Len(uniq) :
                    \E k \in 1..Len(OutItems) : Came(OutItems[k], uniq[u])

C3_Witness ==
    /\ Done
    /\ Len(uniq) > ItemCap
    /\ Len(OutItems) = ItemCap
    /\ \E u \in 1..Len(uniq) :
          /\ \A k \in 1..Len(OutItems) : ~Came(OutItems[k], uniq[u])
          /\ \E k \in 1..Len(OutItems) : OutItems[k].published > uniq[u].published

\* C10 as stated: the count field of the written document is the number of
\* entries of its items sequence.
C10_CountIsLength == Done => feed_json.count = Len(feed_json.items)

\* ---------------------------------------- failing feeds, unresolved dates
EntryD(title, link, published, updated, published_parsed) ==
    [title |-> title, summary |-> <<>>, description |-> <<"d">>, link |-> link,
     published |-> published, updated |-> updated, created |-> NoDate,
     published_parsed |-> published_parsed, tags |-> <<>>]

\* Feed contents for failures and dates: a complete date, no date at all,
\* an unparseable date before a good one, a title that is not a str, a
\* partial date, and a date present only as a time tuple.
PoolB1 ==
    { EntryD(<<"t1">>, La, FullDate(1), NoDate, NoDate),
      EntryD(<<"t2">>, Lb, NoDate, NoDate, NoDate),
      EntryD(NonStr, Lc, FullDate(2), NoDate, NoDate),
      EntryD(<<"t4">>, Ld, BadDate, FullDate(2), NoDate) }

PoolB2 ==
    { EntryD(<<"t5">>, Lc, NoDate, NoDate, BadDate),
      EntryD(<<"t6">>, Lb, PartialDate(1), NoDate, NoDate),
      EntryD(<<"t7">>, Lc, NoDate, NoDate, FullDate(1)) }

WebsB ==
    { <<Feed(<<"a">>, es1), f2>> :
        es1 \in SeqsUpTo(PoolB1, MaxEntries),
        f2 \in {FeedError} \cup {Feed(None, es2) : es2 \in SeqsUpTo(PoolB2, MaxEntries)} }

InitEnv == InitWith(WebsB, {NoCatalog}, {<<>>})

SpecEnv == InitEnv /\ [][Next]_vars

\* the source name main() gives the items of the i-th feed
SourceOf(i) == IF web[i].title # None THEN web[i].title ELSE feed_urls[i]

\* processing the i-th feed fails: in the parser, or on one of its entries
FeedFails(i) ==
    \/ web[i].error
    \/ \E k \in 1..Len(web[i].entries) : NormalizeRaises(web[i].entries[k])

\* the part of C4 about the rest of the run: the document is written after
\* every feed url was tried, and each entry of a feed that did not fail was
\* fetched, whatever happened to the feeds before it
C4_RunContinues ==
    Done =>
        /\ feed_json.written
        /\ fi = Len(feed_urls) + 1
        /\ \A i \in 1..Len(feed_urls) :
              ~FeedFails(i) =>
                 \A k \in 1..Len(web[i].entries) :
                    \E r \in 1..Len(raw_items) :
                       /\ raw_items[r].source = SourceOf(i)
                       /\ raw_items[r].link = web[i].entries[k].link

\* C4 as stated: a feed whose processing fails at any point does not stop
\* the run, and no item of the written document comes from it.
C4_FailedFeedSkipped ==
    /\ C4_RunContinues
    /\ Done =>
          \A i \in 1..Len(feed_urls) :
             FeedFails(i) =>
                \A k \in 1..Len(OutItems) : OutItems[k].source_name # SourceOf(i)

\* the published value of entry e does not depend on the time of the run:
\* the first parseable of published, updated, created is a complete date,
\* or none is parseable and published_parsed is a valid time tuple
Usable(v) == v.k \in {"full", "partial"}

ClockFree(e) ==
    IF Usable(e.published) THEN e.published.k = "full"
    ELSE IF Usable(e.updated) THEN e.updated.k = "full"
    ELSE IF Usable(e.created) THEN e.created.k = "full"
    ELSE e.published_parsed.k = "full"

AllClockFree ==
    \A i \in 1..Len(web) : \A k \in 1..Len(web[i].entries) :
        ClockFree(web[i].entries[k])

\* two documents equal in every field but generated_at
SameButGeneratedAt(a, b) ==
    /\ a.written /\ b.written
    /\ a.target_lang = b.target_lang
    /\ a.count = b.count
    /\ a.items = b.items

SecondDone == Done /\ run = "second"

\* C5 as stated: with translation off, a second run on the same feeds and
\* catalog writes the document of the first run, generated_at apart, for
\* all feed contents.
C5_Original == (SecondDone /\ LT_URL = <<>>) => SameButGeneratedAt(feed_json, prev_json)

\* C5 amended: the same, for feed contents in which the date of every entry
\* resolves without the clock of the run.
C5_Idempotent ==
    (SecondDone /\ LT_URL = <<>> /\ AllClockFree)
        => SameButGeneratedAt(feed_json, prev_json)

C5_Witness ==
    /\ SecondDone
    /\ LT_URL = <<>>
    /\ AllClockFree
    /\ feed_json.generated_at # prev_json.generated_at
    /\ Len(OutItems) >= 2
    /\ \E i \in 1..Len(web) : \E k \in 1..Len(web[i].entries) :
          ~Usable(web[i].entries[k].published)
    /\ SameButGeneratedAt(feed_json, prev_json)

\* ------------------------------------------------------------ translation
\* Feed contents for translation: a title with a summary, titles without.
T1 == Entry(<<"hello">>, <<"some", " ", "text">>, La, FullDate(2))
T2 == Entry(<<"konnichiwa">>, <<>>, Lb, FullDate(1))
T3 == Entry(<<"bonjour">>, <<>>, Lc, FullDate(1))

WebsT ==
    { <<Feed(<<"a">>, es), Feed(None, <<>>)>> : es \in {<<T1>>, <<T2>>, <<T2, T3>>} }

InitTr == InitWith(WebsT, {NoCatalog}, {<<>>, <<"http", ":", "//", "lt">>})

SpecTr == InitTr /\ [][Next]_vars

\* the calls of maybe_translate for the title and the summary of item i
TitleCall(i) == tlog[2 * i - 1]
SummaryCall(i) == tlog[2 * i]

\* C6: with translation on, a non-empty title detected as TARGET_LANG comes
\* back unchanged with that language and without a request; the summary
\* gets TARGET_LANG as its hint and is not requested either; the output
\* item has title_translated = title.
C6_ShortCircuit ==
    \A i \in 1..Len(translated) :
        (/\ Truthy(LT_URL)
         /\ Truthy(TitleCall(i).text)
         /\ TitleCall(i).det = TARGET_LANG)
        => /\ TitleCall(i).ret_text = TitleCall(i).text
           /\ TitleCall(i).ret_lang = TARGET_LANG
           /\ TitleCall(i).posts = <<>>
           /\ SummaryCall(i).src_hint = TARGET_LANG
           /\ SummaryCall(i).posts = <<>>
           /\ SummaryCall(i).ret_text = SummaryCall(i).text
           /\ translated[i].title_translated = translated[i].title
           /\ (Done /\ i <= Len(OutItems))
                 => OutItems[i].title_translated = OutItems[i].title

C6_Witness ==
    /\ Done
    /\ Truthy(LT_URL)
    /\ \E i \in 1..Len(OutItems) :
          /\ TitleCall(i).det = TARGET_LANG
          /\ Truthy(SummaryCall(i).text)
          /\ SummaryCall(i).posts = <<>>
          /\ OutItems[i].title_translated = OutItems[i].title

FailedAnswers == {"raise", "not_ok", "ok_nokey", "ok_malformed"}

\* the language maybe_translate had for call c before it posted
LangBeforeCall(c) ==
    IF Truthy(c.src_hint) THEN c.src_hint
    ELSE IF c.det = DetectRaises THEN None ELSE c.det

\* C7: a call to the endpoint that raises, is answered with a non-OK status
\* or with a body that is malformed or lacks translatedText makes
\* maybe_translate return the text unchanged with the language it had
\* before the call (None when detection failed); the text is posted once,
\* and the run goes on to format and write every unique item.
C7_CallFailure ==
    /\ \A n \in 1..Len(tlog) :
          (tlog[n].posts # <<>> /\ tlog[n].resp \in FailedAnswers)
          => /\ tlog[n].ret_text = tlog[n].text
             /\ tlog[n].ret_lang = LangBeforeCall(tlog[n])
             /\ tlog[n].posts = <<tlog[n].text>>
    /\ Done => /\ Len(tlog) = 2 * Len(uniq)
               /\ feed_json.written
               /\ feed_json.count = Len(uniq)

C7_Witness ==
    /\ Done
    /\ \E n \in 1..Len(tlog) :
          /\ tlog[n].resp = "ok_malformed"
          /\ tlog[n].ret_lang = <<"en">>
          /\ tlog[n].ret_text = tlog[n].text
    /\ \E n \in 1..Len(tlog) :
          /\ tlog[n].resp = "raise"
          /\ tlog[n].det = DetectRaises
          /\ tlog[n].ret_lang = None

\* ------------------------------------------------------------- enrichment
Row(name, country, continent, language, website_url) ==
    [name |-> name, country |-> country, continent |-> continent,
     language |-> language, website_url |-> website_url]

ExampleNews == <<"Example", " ", "News">>
ExampleNewsWorld == <<"Example", " ", "News", " ", "-", " ", "World">>

RowExample ==
    Row(ExampleNews, <<"Japan">>, <<"Asia">>, <<"Japanese">>, <<>>)
RowOther ==
    Row(<<"Other">>, <<"US">>, <<"America">>, <<"English">>,
        <<"https", ":", "//", "news", ".", "com", "/">>)
RowWorld ==
    Row(ExampleNewsWorld, <<"UK">>, <<"Europe">>, <<"English">>, <<>>)
RowNews ==
    Row(<<" ", "News">>, <<>>, <<"Africa">>, <<>>, <<>>)

RowPool == {RowExample, RowOther, RowWorld, RowNews}

Ljp == <<"https", ":", "//", "WWW", ".", "example", ".", "co", ".", "jp", "/", "a">>
Lcom == <<"http", ":", "//", "news", ".", "com", "/", "x">>

CatalogsC ==
    {NoCatalog} \cup {[exists |-> TRUE, rows |-> rs] : rs \in SeqsUpTo(RowPool, MaxRows)}

WebsC ==
    { <<Feed(t, es), FeedError>> :
        t \in {ExampleNewsWorld, ExampleNews, None},
        es \in { [k \in DOMAIN ls |-> Entry(<<"t">>, <<>>, ls[k], FullDate(1))] :
                    ls \in SeqsUpTo({Ljp, Lcom}, MaxEntries) } }

InitCat == InitWith(WebsC, CatalogsC, {<<>>})

SpecCat == InitCat /\ [][Next]_vars

Formatted == pc \in {"write", "done"}

\* output record o of item it carries the metadata of catalog row `row`
UsesRow(o, it, row) ==
    /\ o.country = Or(RowField(row, "country"), Unknown)
    /\ o.continent = Or(RowField(row, "continent"), Unknown)
    /\ o.language = Or(RowField(row, "language"), Or(it.lang_detected, <<"unknown">>))
    /\ o.source_name = Or(RowField(row, "name"), it.source)

\* output record o of item it carries no catalog metadata
UsesNoRow(o, it) ==
    /\ o.country = Unknown
    /\ o.continent = Unknown
    /\ o.language = Or(it.lang_detected, <<"unknown">>)
    /\ o.source_name = it.source

DomainHit(it) ==
    _netloc(it.link) # <<>> /\ DictHas(domain_map, _netloc(it.link))

NameHit(it) == DictHas(name_map, Lower(Strip(it.source)))

SubstrHits(it) ==
    {n \in 1..Len(name_map) :
        name_map[n].k # <<>> /\ IsSubstr(name_map[n].k, Lower(Strip(it.source)))}

\* C8: the catalog row of an output item is the one of its link domain;
\* failing that, the one named like its lowercased source; failing that, the
\* first one whose name is part of the lowercased source; failing that, none.
\* With only "Example News" in the catalog, a link on www.example.co.jp and
\* the source "Example News - World", the item gets that row's values.
C8_FallbackChain ==
    Formatted =>
        \A i \in 1..Len(formatted) :
            LET it == translated[i]
                o  == formatted[i]
            IN  /\ DomainHit(it)
                      => UsesRow(o, it, DictGet(domain_map, _netloc(it.link)))
                /\ (~DomainHit(it) /\ NameHit(it))
                      => UsesRow(o, it, DictGet(name_map, Lower(Strip(it.source))))
                /\ (~DomainHit(it) /\ ~NameHit(it) /\ SubstrHits(it) # {})
                      => \E n \in SubstrHits(it) :
                            /\ \A m \in SubstrHits(it) : n <= m
                            /\ UsesRow(o, it, name_map[n].v)
                /\ (~DomainHit(it) /\ ~NameHit(it) /\ SubstrHits(it) = {})
                      => UsesNoRow(o, it)
                /\ (/\ catalog_file = [exists |-> TRUE, rows |-> <<RowExample>>]
                    /\ it.link = Ljp
                    /\ it.source = ExampleNewsWorld)
                      => /\ o.country = <<"Japan">>
                         /\ o.continent = <<"Asia">>
                         /\ o.language = <<"Japanese">>

C8_Witness ==
    /\ Done
    /\ catalog_file = [exists |-> TRUE, rows |-> <<RowExample>>]
    /\ \E i \in 1..Len(OutItems) :
          /\ OutItems[i].link = Ljp
          /\ translated[i].source = ExampleNewsWorld
          /\ _netloc(OutItems[i].link) = <<"www", ".", "example", ".", "co", ".", "jp">>
          /\ OutItems[i].country = <<"Japan">>
          /\ OutItems[i].source_name = ExampleNews

\* the last dot-delimited label of the link domain of output record o
Tld(o) == LET d == _netloc(o.link) IN IF d = <<>> THEN "" ELSE d[Len(d)]

\* C9 as stated: without a catalog file an item on a .jp domain gets a
\* country and continent from a table of top-level domains, not the
\* "unknown" pair, and an item on a .com domain gets the "unknown" pair.
C9_TldFallback ==
    (Done /\ ~catalog_file.exists) =>
        \A k \in 1..Len(OutItems) :
            /\ Tld(OutItems[k]) = "jp"
                  => (OutItems[k].country # Unknown /\ OutItems[k].continent # Unknown)
            /\ Tld(OutItems[k]) = "com"
                  => (OutItems[k].country = Unknown /\ OutItems[k].continent = Unknown)

\* what the code does without a catalog file: the "unknown" pair, always
C9_CodeBehaviour ==
    (Done /\ ~catalog_file.exists) =>
        \A k \in 1..Len(OutItems) :
            OutItems[k].country = Unknown /\ OutItems[k].continent = Unknown

====
